---- MODULE Spec2Model ----
(***************************************************************************)
(* FreshSteps (src/server.py): a Flask application that loads air-quality  *)
(* CSV exports into one table (DATA), matches a submitted city against it, *)
(* stores a submission row in an in-memory index (submissions) and in an   *)
(* append-only CSV log (SUBMISSIONS_FILE), and serves read-only views.     *)
(*                                                                         *)
(* Python values are tagged records:                                       *)
(*   [ty |-> "None"]               None / an absent form field             *)
(*   [ty |-> "NaN"]                a float NaN, pandas NaN / NaT           *)
(*   [ty |-> "float", v |-> n]     a number; n counts hundredths           *)
(*   [ty |-> "str", s |-> chars]   a string, a sequence of 1-char strings  *)
(***************************************************************************)
EXTENDS Integers, Sequences, FiniteSets, TLC

VARIABLES DATA, submissions, logFile, pc, local, resp, epoch, nextId, now,
          call, ret

vars == <<DATA, submissions, logFile, pc, local, resp, epoch, nextId, now,
          call, ret>>

(* ------------------------------ bounds -------------------------------- *)
\* submissions accepted, over every incarnation of the process
MaxIds == 2
\* process restarts explored
MaxRestarts == 1
\* numbers are held in hundredths (15.01 is 1501): n as a count of hundredths
Hundredths(n) == n * 100

(* --------------------------- Python values ---------------------------- *)
None == [ty |-> "None"]
NaN == [ty |-> "NaN"]
Num(n) == [ty |-> "float", v |-> n]
Str(chars) == [ty |-> "str", s |-> chars]

IsNum(x) == x.ty = "float"
IsStr(x) == x.ty = "str"

\* str(x) as far as the code needs it: astype(str) turns a missing cell into
\* the text "nan"
AsText(x) == IF IsStr(x) THEN x.s ELSE <<"n", "a", "n">>

(* ------------------------------ strings ------------------------------- *)
IsSpace(c) == c = " "

ToLower(c) ==
    CASE c = "A" -> "a"
      [] c = "B" -> "b"
      [] c = "C" -> "c"
      [] OTHER -> c

\* code points, for Python's ordering of strings
Ord(c) ==
    CASE c = " " -> 32
      [] c = "A" -> 65
      [] c = "B" -> 66
      [] c = "C" -> 67
      [] c = "a" -> 97
      [] c = "b" -> 98
      [] c = "c" -> 99
      [] c = "n" -> 110
      [] OTHER -> 122

RECURSIVE LStrip(_)
LStrip(s) ==
    IF s # <<>> /\ IsSpace(Head(s)) THEN LStrip(Tail(s)) ELSE s

RECURSIVE RStrip(_)
RStrip(s) ==
    IF s # <<>> /\ IsSpace(s[Len(s)]) THEN RStrip(SubSeq(s, 1, Len(s) - 1)) ELSE s

Strip(s) == RStrip(LStrip(s))

Lower(s) == [i \in 1..Len(s) |-> ToLower(s[i])]

\* key = str(x).strip().lower()
CleanKey(s) == Lower(Strip(s))

\* a < b for Python strings
RECURSIVE StrLess(_, _)
StrLess(a, b) ==
    IF b = <<>> THEN FALSE
    ELSE IF a = <<>> THEN TRUE
    ELSE IF Ord(Head(a)) # Ord(Head(b)) THEN Ord(Head(a)) < Ord(Head(b))
    ELSE StrLess(Tail(a), Tail(b))

\* key in c, for strings
Contains(c, key) ==
    \E i \in 0..(Len(c) - Len(key)) : SubSeq(c, i + 1, i + Len(key)) = key

(* ----------------------- difflib.SequenceMatcher ---------------------- *)
\* a[i+d] = b[j+d] for d in 0..k-1 (0-based i, j)
BlockAt(a, i, b, j, k) == \A d \in 1..k : a[i + d] = b[j + d]

\* the blocks common to a[alo..ahi) and b[blo..bhi), as <<i, j, k>>
Blocks(a, alo, ahi, b, blo, bhi) ==
    {m \in (alo..ahi) \X (blo..bhi) \X (0..(ahi - alo)) :
        m[1] + m[3] <= ahi /\ m[2] + m[3] <= bhi /\ BlockAt(a, m[1], b, m[2], m[3])}

\* find_longest_match: the longest block, of those the one earliest in a, of
\* those the one earliest in b
Preferred(m, o) ==
    \/ m[3] > o[3]
    \/ m[3] = o[3] /\ m[1] < o[1]
    \/ m[3] = o[3] /\ m[1] = o[1] /\ m[2] <= o[2]

First(blocks) == CHOOSE m \in blocks : \A o \in blocks : Preferred(m, o)

LongestAt(a, alo, ahi, b, blo, bhi) ==
    CHOOSE m \in {First(blocks) : blocks \in {Blocks(a, alo, ahi, b, blo, bhi)}} : TRUE

\* sum of the sizes of get_matching_blocks()
RECURSIVE Matches(_, _, _, _, _, _)
Matches(a, alo, ahi, b, blo, bhi) ==
    IF alo >= ahi \/ blo >= bhi THEN 0
    ELSE CHOOSE total \in
           {IF m[3] = 0 THEN 0
            ELSE m[3] + Matches(a, alo, m[1], b, blo, m[2])
                      + Matches(a, m[1] + m[3], ahi, b, m[2] + m[3], bhi) :
              m \in {LongestAt(a, alo, ahi, b, blo, bhi)}} : TRUE

\* ratio() = 2.0 * M / T as the fraction <<2M, T>>; 1.0 for two empty strings
Ratio(a, b) ==
    IF Len(a) + Len(b) = 0 THEN <<1, 1>>
    ELSE <<2 * Matches(a, 0, Len(a), b, 0, Len(b)), Len(a) + Len(b)>>

\* ratio >= cutoff with cutoff = 0.6
AtLeastCutoff(r) == 10 * r[1] >= 6 * r[2]

\* (score1, x1) < (score2, x2) as Python orders tuples
ScoredLess(r1, x1, r2, x2) ==
    \/ r1[1] * r2[2] < r2[1] * r1[2]
    \/ r1[1] * r2[2] = r2[1] * r1[2] /\ StrLess(x1, x2)

\* get_close_matches(word, possibilities, n=1, cutoff=0.6): the list of
\* at most one best match, the largest (score, x)
Largest(result) ==
    IF result = {} THEN <<>>
    ELSE <<(CHOOSE p \in result : \A q \in result : ~ScoredLess(p[1], p[2], q[1], q[2]))[2]>>

get_close_matches(word, possibilities) ==
    CHOOSE matches \in
      {Largest({p \in scored : AtLeastCutoff(p[1])}) :
         scored \in {{<<Ratio(possibilities[i], word), possibilities[i]>> :
                        i \in 1..Len(possibilities)}}} : TRUE

(* ------------------------------ float() ------------------------------- *)
Digit(c) ==
    CASE c = "0" -> 0 [] c = "1" -> 1 [] c = "2" -> 2 [] c = "3" -> 3
      [] c = "4" -> 4 [] c = "5" -> 5 [] c = "6" -> 6 [] c = "7" -> 7
      [] c = "8" -> 8 [] c = "9" -> 9 [] OTHER -> -1

RECURSIVE DigitsValue(_)
DigitsValue(s) ==
    IF s = <<>> THEN 0 ELSE 10 * DigitsValue(SubSeq(s, 1, Len(s) - 1)) + Digit(s[Len(s)])

\* float(x): a number stays, a text of digits (surrounding blanks allowed)
\* is parsed, anything else raises (TypeError for None, ValueError for text)
Raises == [ty |-> "raise"]

float(x) ==
    IF IsNum(x) THEN x
    ELSE IF x.ty = "NaN" THEN NaN
    ELSE IF IsStr(x) /\ Strip(x.s) # <<>> /\ \A i \in 1..Len(Strip(x.s)) : Digit(Strip(x.s)[i]) >= 0
         THEN Num(Hundredths(DigitsValue(Strip(x.s))))
    ELSE Raises

\* Python truth of a value: None, "", 0 and 0.0 are false
Truthy(x) ==
    CASE x.ty = "None" -> FALSE
      [] x.ty = "str" -> x.s # <<>>
      [] x.ty = "float" -> x.v # 0
      [] OTHER -> TRUE

\* x or y
Or(x, y) == IF Truthy(x) THEN x ELSE y

(* --------------------------- advisory rules --------------------------- *)
\* pm25_health_message with the first boundary exclusive
pm25_health_message_strict(v) ==
    LET f == float(v)
    IN IF f.ty = "raise" THEN "PM2.5 data unavailable."
       ELSE IF f.ty # "NaN" /\ f.v < Hundredths(15) THEN "Excellent air (WHO 24h guideline)."
       ELSE IF f.ty # "NaN" /\ f.v <= Hundredths(35) THEN "Good - low risk for most people."
       ELSE IF f.ty # "NaN" /\ f.v < Hundredths(55) THEN "Moderate - sensitive groups limit outdoor exertion."
       ELSE IF f.ty # "NaN" /\ f.v <= Hundredths(150) THEN "Unhealthy - wear a mask outdoors."
       ELSE "Very unhealthy - avoid outdoor exposure & use purifier."

pm25_health_message(v) ==
    LET f == float(v)
    IN IF f.ty = "raise" THEN "PM2.5 data unavailable."
       ELSE IF f.ty # "NaN" /\ f.v <= Hundredths(15) THEN "Excellent air (WHO 24h guideline)."
       ELSE IF f.ty # "NaN" /\ f.v <= Hundredths(35) THEN "Good - low risk for most people."
       ELSE IF f.ty # "NaN" /\ f.v <= Hundredths(55) THEN "Moderate - sensitive groups limit outdoor exertion."
       ELSE IF f.ty # "NaN" /\ f.v <= Hundredths(150) THEN "Unhealthy - wear a mask outdoors."
       ELSE "Very unhealthy - avoid outdoor exposure & use purifier."

pm10_health_message(v) ==
    LET f == float(v)
    IN IF f.ty = "raise" THEN "PM10 data unavailable."
       ELSE IF f.ty # "NaN" /\ f.v <= Hundredths(45) THEN "Excellent (WHO 24h guideline)."
       ELSE IF f.ty # "NaN" /\ f.v <= Hundredths(100) THEN "Moderate - sensitive groups take care."
       ELSE IF f.ty # "NaN" /\ f.v <= Hundredths(250) THEN "Unhealthy - consider limiting outdoor activity."
       ELSE "Very unhealthy - stay indoors if possible."

co2_message(v) ==
    LET f == float(v)
    IN IF f.ty = "raise" THEN "CO2 data unavailable."
       ELSE IF f.ty # "NaN" /\ f.v < Hundredths(600) THEN "Very good ventilation."
       ELSE IF f.ty # "NaN" /\ f.v < Hundredths(1000) THEN "Acceptable indoor levels."
       ELSE IF f.ty # "NaN" /\ f.v < Hundredths(1500) THEN "Poor ventilation - open windows."
       ELSE "High CO2 - ventilate immediately."

(* ----------------------------- the table ------------------------------ *)
\* A CSV file is [cols: the column names it has, rows: its rows]; a row is
\* [city, local_time, PM2_5, PM10, CO2], and a cell of a column the file
\* lacks is not read.  A frame is [cols, rows] too, its rows carrying
\* city_clean as well.
Pollutants == {"PM2_5", "PM10", "CO2"}

\* pd.to_datetime(errors="coerce"): a time stays, anything else is NaT
ToDatetime(x) == IF IsNum(x) THEN x ELSE NaN

Cell(f, r, col) == IF col \in f.cols THEN r[col] ELSE NaN

\* one file as load_all_datasets prepares it (lines 45-53)
LoadFile(f) ==
    [cols |-> f.cols \cup (IF "city" \in f.cols THEN {"city_clean"} ELSE {}),
     rows |-> [i \in 1..Len(f.rows) |->
                [city |-> Cell(f, f.rows[i], "city"),
                 city_clean |-> IF "city" \in f.cols
                                THEN Str(CleanKey(AsText(f.rows[i].city))) ELSE NaN,
                 local_time |-> IF "local_time" \in f.cols
                                THEN ToDatetime(f.rows[i].local_time) ELSE NaN,
                 PM2_5 |-> Cell(f, f.rows[i], "PM2_5"),
                 PM10 |-> Cell(f, f.rows[i], "PM10"),
                 CO2 |-> Cell(f, f.rows[i], "CO2")]]]

EmptyFrame == [cols |-> {}, rows |-> <<>>]

\* pd.concat(frames, ignore_index=True): the union of the columns, the rows
\* in order, NaN where a frame lacks a column
RECURSIVE Concat(_)
Concat(frames) ==
    IF frames = <<>> THEN EmptyFrame
    ELSE LET rest == Concat(Tail(frames))
         IN [cols |-> Head(frames).cols \cup rest.cols,
             rows |-> Head(frames).rows \o rest.rows]

load_all_datasets(files) == Concat([i \in 1..Len(files) |-> LoadFile(files[i])])

\* Series.dropna().unique().tolist(): the distinct keys in order of first
\* appearance
RECURSIVE Unique(_)
Unique(keys) ==
    IF keys = <<>> THEN <<>>
    ELSE CHOOSE all \in
           {IF \E i \in 1..Len(init) : init[i] = keys[Len(keys)] THEN init
            ELSE Append(init, keys[Len(keys)]) :
              init \in {Unique(SubSeq(keys, 1, Len(keys) - 1))}} : TRUE

Cities(data) ==
    LET HasKey(r) == r.city_clean.ty # "NaN"
        present == SelectSeq(data.rows, HasKey)
    IN Unique([i \in 1..Len(present) |-> present[i].city_clean.s])

(* --------------------------- city matching ---------------------------- *)
InSeq(x, seq) == \E i \in 1..Len(seq) : seq[i] = x

\* the first c of cities with key in c, <<>> when there is none
FirstContaining(cities, key) ==
    LET hits == {i \in 1..Len(cities) : Contains(cities[i], key)}
    IN IF hits = {} THEN <<>>
       ELSE <<cities[CHOOSE i \in hits : \A m \in hits : i <= m]>>

\* the test of line 61
NoInputOrNoColumn(data, city_input) ==
    ~Truthy(city_input) \/ "city_clean" \notin data.cols

\* lines 65-71, for the key and the list of cities of lines 63-64
FuzzyOrSubstring(key, cities, match) ==
    IF match # <<>> THEN Str(match[1])
    ELSE IF FirstContaining(cities, key) # <<>> THEN Str(FirstContaining(cities, key)[1])
    ELSE None

BestOf(key, cities) ==
    IF InSeq(key, cities) THEN Str(key)
    ELSE CHOOSE found \in
           {FuzzyOrSubstring(key, cities, match) :
              match \in {get_close_matches(key, cities)}} : TRUE

find_best_city_match(data, city_input) ==
    IF NoInputOrNoColumn(data, city_input) THEN None
    ELSE CHOOSE found \in
           {BestOf(key, cities) :
              key \in {CleanKey(AsText(city_input))}, cities \in {Cities(data)}} : TRUE

\* which stage of find_best_city_match answers
StageOf(key, cities) ==
    IF InSeq(key, cities) THEN "exact"
    ELSE IF get_close_matches(key, cities) # <<>> THEN "fuzzy"
    ELSE IF FirstContaining(cities, key) # <<>> THEN "substring"
    ELSE "none"

MatchStage(data, city_input) ==
    IF NoInputOrNoColumn(data, city_input) THEN "guard"
    ELSE CHOOSE stage \in
           {StageOf(key, cities) :
              key \in {CleanKey(AsText(city_input))}, cities \in {Cities(data)}} : TRUE

(* ----------------------------- statistics ----------------------------- *)
\* the orders sort_values("local_time") can leave n timestamped rows in:
\* ascending, rows of equal time in an order the sort does not fix
\* (kind="quicksort" is not stable)
Ascending(rows) ==
    {p \in Permutations(1..Len(rows)) :
        \A i \in 1..(Len(rows) - 1) : rows[p[i]].local_time.v <= rows[p[i + 1]].local_time.v}

HasTime(r) == r.local_time.ty # "NaN"
NoTime(r) == r.local_time.ty = "NaN"

\* frame.sort_values("local_time"): the timestamped rows ascending, then the
\* rows without a timestamp (na_position="last") in their original order
SortValues(rows) ==
    LET timed == SelectSeq(rows, HasTime)
    IN {[i \in 1..Len(timed) |-> timed[p[i]]] \o SelectSeq(rows, NoTime) : p \in Ascending(timed)}

\* frame.dropna(subset=["local_time"])
DropNaTime(rows) == SelectSeq(rows, HasTime)

\* DATA[DATA["city_clean"] == key]
CityRows(data, key) ==
    LET IsCity(r) == r.city_clean.ty = "str" /\ r.city_clean.s = key
    IN SelectSeq(data.rows, IsCity)

\* val_or_none(row, key)
val_or_none(data, row, key) ==
    IF key \in data.cols /\ row[key].ty # "NaN" THEN row[key] ELSE None

RECURSIVE SumOf(_, _)
SumOf(rows, col) ==
    IF rows = <<>> THEN 0
    ELSE (IF Head(rows)[col].ty = "float" THEN Head(rows)[col].v ELSE 0) + SumOf(Tail(rows), col)

CountOf(rows, col) == Cardinality({i \in 1..Len(rows) : rows[i][col].ty = "float"})

\* city_df[col].mean(skipna=True) if col in city_df else None; the mean is
\* the fraction sum / n, NaN when no value is present
MeanOrNone(data, rows, col) ==
    IF col \notin data.cols THEN None
    ELSE IF CountOf(rows, col) = 0 THEN NaN
    ELSE [ty |-> "mean", sum |-> SumOf(rows, col), n |-> CountOf(rows, col)]

(* ------------------------------ the form ------------------------------ *)
Max(a, b) == IF a >= b THEN a ELSE b

\* lines 126-128: indoor, outdoor, work, or Raises when a float() raises
ParseHours(data) ==
    LET indoor == float(Or(data.indoor, Num(0)))
        outdoor == float(Or(data.outdoor, Num(0)))
        work == float(Or(data.work, Num(Max(0, Hundredths(24) - (indoor.v + outdoor.v)))))
    IN IF indoor.ty = "raise" \/ outdoor.ty = "raise" \/ work.ty = "raise" THEN Raises
       ELSE [ty |-> "hours", indoor |-> indoor, outdoor |-> outdoor, work |-> work]

\* lines 159-190, without submission_id and timestamp
BuildRow(data, hours, frame, city_df, latest) ==
    LET pm2_5_latest == val_or_none(frame, latest, "PM2_5")
        pm10_latest == val_or_none(frame, latest, "PM10")
        co2_latest == val_or_none(frame, latest, "CO2")
    IN [fullName |-> data.fullName,
        city_input |-> data.city,
        city_matched |-> latest.city,
        indoor |-> hours.indoor,
        outdoor |-> hours.outdoor,
        work |-> hours.work,
        notes |-> Or(data.notes, Str(<<>>)),
        pm2_5_latest |-> pm2_5_latest,
        pm2_5_avg |-> MeanOrNone(frame, city_df, "PM2_5"),
        pm10_latest |-> pm10_latest,
        pm10_avg |-> MeanOrNone(frame, city_df, "PM10"),
        co2_latest |-> co2_latest,
        co2_avg |-> MeanOrNone(frame, city_df, "CO2"),
        suggestion_pm25 |-> pm25_health_message(pm2_5_latest),
        suggestion_pm10 |-> pm10_health_message(pm10_latest),
        suggestion_co2 |-> co2_message(co2_latest)]

\* latest = city_df.iloc[-1] of each order the sort can leave
LatestOf(city_rows) == {s[Len(s)] : s \in SortValues(city_rows)}

\* lines 140-190, for the parsed hours and the matched key
Compute(frame, data, hours, city_key) ==
    IF "local_time" \notin frame.cols THEN {[code |-> 500]}
    ELSE UNION {IF city_df = <<>> THEN {[code |-> 404]}
                ELSE {[code |-> 302, row |-> BuildRow(data, hours, frame, city_df, latest)] :
                        latest \in LatestOf(city_df)} :
                  city_df \in {CityRows(frame, city_key.s)}}

\* lines 116-190 of submit_form: the outcomes of the request before anything
\* is stored.  500 is an exception no handler catches.
Prepare(frame, data) ==
    UNION {IF hours.ty = "raise" THEN {[code |-> 500]}
           ELSE IF ~Truthy(city_key) THEN {[code |-> 404]}
           ELSE Compute(frame, data, hours, city_key) :
             hours \in {ParseHours(data)}, city_key \in {find_best_city_match(frame, data.city)}}

(* ----------------------------- dashboard ------------------------------ *)
\* .tail(48) of line 215 and .tail(7) of line 229
TrendWindow == 48
WeeklyDays == 7

LastN(seq, n) == IF Len(seq) <= n THEN seq ELSE SubSeq(seq, Len(seq) - n + 1, Len(seq))

\* a local_time counts hours; .dt.date is its day, and the "%d %b %H:%M"
\* label keeps the day within the year and the hour
Date(t) == t.v \div 24
Label(t) == <<Date(t) % 365, t.v % 24>>

Column(rows, col) == [i \in 1..Len(rows) |-> rows[i][col]]

\* the days of groupby("day"), ascending
Days(rows) ==
    LET ds == {Date(rows[i].local_time) : i \in 1..Len(rows)}
        Rank(d) == Cardinality({e \in ds : e < d}) + 1
    IN [k \in 1..Cardinality(ds) |-> CHOOSE d \in ds : Rank(d) = k]

\* lines 212-236 for one order of the trend rows: 500 stands for the KeyError
\* of .agg({...}) on a column the frame lacks
TrendOf(frame, trend_df, emptyFrame) ==
    LET cols == IF emptyFrame THEN {} ELSE frame.cols
        times == [i \in 1..Len(trend_df) |-> Label(trend_df[i].local_time)]
        series(col) == IF col \in cols THEN Column(trend_df, col) ELSE <<>>
    IN IF trend_df # <<>> /\ ~(Pollutants \subseteq cols) THEN [code |-> 500]
       ELSE [code |-> 200,
             times |-> times,
             pm25_ts |-> series("PM2_5"),
             pm10_ts |-> series("PM10"),
             co2_ts |-> series("CO2"),
             weekly |-> LastN(Days(trend_df), WeeklyDays)]

\* the dashboard of a stored row: every outcome the request can have
DashboardOf(frame, result) ==
    LET city == CleanKey(AsText(Or(result.city_matched, Str(<<>>))))
    IN IF city # <<>> /\ "city_clean" \in frame.cols
       THEN IF "local_time" \notin frame.cols THEN {[code |-> 500]}
            ELSE {TrendOf(frame, LastN(s, TrendWindow), FALSE) :
                    s \in SortValues(DropNaTime(CityRows(frame, city)))}
       ELSE {TrendOf(frame, <<>>, TRUE)}

(* ------------------------- the submission store ----------------------- *)
\* SUBMISSIONS_FILE: whether it exists, and its lines (the header, then rows)
NoFile == [exists |-> FALSE, lines |-> <<>>]
Header == [header |-> "submission_id,timestamp,fullName,..."]

\* csv.DictWriter writes None as an empty field and any other value as its
\* text
CsvCell(x) ==
    IF x.ty = "None" THEN Str(<<>>)
    ELSE IF x.ty = "str" THEN x
    ELSE [ty |-> "text", of |-> x]

CsvRow(row) ==
    [submission_id |-> row.submission_id,
     timestamp |-> row.timestamp,
     fullName |-> CsvCell(row.fullName),
     city_input |-> CsvCell(row.city_input),
     city_matched |-> CsvCell(row.city_matched),
     indoor |-> CsvCell(row.indoor),
     outdoor |-> CsvCell(row.outdoor),
     work |-> CsvCell(row.work),
     notes |-> CsvCell(row.notes),
     pm2_5_latest |-> CsvCell(row.pm2_5_latest),
     pm2_5_avg |-> CsvCell(row.pm2_5_avg),
     pm10_latest |-> CsvCell(row.pm10_latest),
     pm10_avg |-> CsvCell(row.pm10_avg),
     co2_latest |-> CsvCell(row.co2_latest),
     co2_avg |-> CsvCell(row.co2_avg),
     suggestion_pm25 |-> row.suggestion_pm25,
     suggestion_pm10 |-> row.suggestion_pm10,
     suggestion_co2 |-> row.suggestion_co2]

\* EnsureFile without the test of line 14: the file is written anew
EnsureFile_rewrite(file) == [exists |-> TRUE, lines |-> <<Header>>]

\* lines 14-29: the file is created with its header only when it is absent
EnsureFile(file) ==
    IF ~file.exists THEN [exists |-> TRUE, lines |-> <<Header>>] ELSE file

\* lines 193-198: open(..., "a"), the header if the file did not exist, the row
AppendRow(file, row) ==
    [exists |-> TRUE,
     lines |-> (IF ~file.exists THEN <<Header>> ELSE file.lines) \o <<CsvRow(row)>>]

\* line 102: the index of a fresh process
EmptyIndex == << >>

\* IndexInsert that keeps the newest row only
IndexInsert_replace(index, row) == [k \in {row.submission_id} |-> row]

\* line 201: submissions[submission_id] = row
IndexInsert(index, row) ==
    [k \in DOMAIN index \cup {row.submission_id} |->
        IF k = row.submission_id THEN row ELSE index[k]]

(* ------------------------- datasets and forms ------------------------- *)
AllCols == {"city", "local_time", "PM2_5", "PM10", "CO2"}

Reading(city, t, pm25, pm10, co2) ==
    [city |-> city, local_time |-> t, PM2_5 |-> pm25, PM10 |-> pm10, CO2 |-> co2]

Unparsable == Str(<<"n", "a">>)

\* one city under three spellings, a reading without a parsable time last
FileFull ==
    [cols |-> AllCols,
     rows |-> << Reading(Str(<<"A", "b">>), Num(30), Num(Hundredths(40)),
                         Num(Hundredths(50)), Num(Hundredths(700))),
                 Reading(Str(<<"b", "c">>), Num(50), NaN, Num(Hundredths(120)), NaN),
                 Reading(Str(<<"a", "b", " ">>), Unparsable, Num(Hundredths(200)),
                         NaN, NaN) >>]

\* no PM2_5 column at all
FileNoPM25 ==
    [cols |-> AllCols \ {"PM2_5"},
     rows |-> << Reading(Str(<<"a", "b">>), Num(10), NaN, Num(Hundredths(30)),
                         Num(Hundredths(1600))),
                 Reading(Str(<<"a", "b">>), Num(40), NaN, NaN, Num(Hundredths(500))) >>]

\* two readings of one city at the same time
FileTies ==
    [cols |-> AllCols,
     rows |-> << Reading(Str(<<"a", "b">>), Num(30), Num(Hundredths(10)), NaN, NaN),
                 Reading(Str(<<"a", "b">>), Num(30), Num(Hundredths(60)), NaN, NaN),
                 Reading(Str(<<"a", "b">>), Num(5), Num(Hundredths(300)), NaN, NaN) >>]

\* no local_time column
FileNoTime ==
    [cols |-> AllCols \ {"local_time"},
     rows |-> << Reading(Str(<<"a", "b">>), NaN, Num(Hundredths(10)), NaN, NaN) >>]

\* no city column
FileNoCity ==
    [cols |-> AllCols \ {"city"},
     rows |-> << Reading(NaN, Num(7), Num(Hundredths(10)), NaN, NaN) >>]

\* a blank city, a missing city, every time unparsable
FileOdd ==
    [cols |-> AllCols,
     rows |-> << Reading(NaN, Unparsable, Num(Hundredths(15)), NaN, NaN),
                 Reading(Str(<<"b", "a", "b">>), NaN, Num(Hundredths(36)), NaN, NaN),
                 Reading(Str(<<" ">>), NaN, NaN, NaN, NaN) >>]

\* one city, its latest reading a PM2.5 of 40
FileLatest40 ==
    [cols |-> AllCols,
     rows |-> << Reading(Str(<<"A", "b">>), Num(30), Num(Hundredths(40)), NaN, NaN),
                 Reading(Str(<<"A", "b">>), Num(10), Num(Hundredths(20)), NaN, NaN) >>]

\* the datasets directory of the served process
Directories == { <<FileFull>>, <<FileNoPM25>> }

\* the directories the pure operators are applied to
AllDirectories ==
    Directories \cup
    { <<>>, <<FileTies>>, <<FileLatest40>>, <<FileNoTime>>, <<FileNoCity>>, <<FileOdd>>,
      <<FileNoPM25, FileFull>>, <<FileNoCity, FileNoTime>>, <<FileNoPM25, FileNoTime>> }

Form(fullName, city, indoor, outdoor, work, notes) ==
    [fullName |-> fullName, city |-> city, indoor |-> indoor, outdoor |-> outdoor,
     work |-> work, notes |-> notes]

\* the requests sent to the served process
Forms ==
    { Form(Str(<<"a">>), Str(<<" ", "A", "b">>), Str(<<"8">>), Num(Hundredths(2)), None, None),
      Form(Str(<<"A">>), Str(<<"b">>), None, None, Num(0), Str(<<"n">>)),
      Form(Str(<<"a">>), Str(<<"z", "z">>), None, None, None, None),
      Form(None, None, None, None, None, None),
      Form(Str(<<"a">>), Str(<<"z", "z">>), Str(<<"a", "b">>), None, None, None) }

Threads == {"t1", "t2"}

\* uuid.uuid4() returns a token never returned before: <<the incarnation of
\* the process, the number of the draw>>
NewId(incarnation, drawn) == <<incarnation, drawn + 1>>

\* a token no process ever drew
ForgedId == <<0, 0>>

\* the tokens a client can hold: those of the rows of the log, and a forged one
RowIds(file) == {file.lines[i].submission_id : i \in 2..Len(file.lines)}
ClientIds(file) == RowIds(file) \cup {ForgedId}

NoLocal == [ty |-> "None"]
NoResp == [req |-> "none", code |-> 0, id |-> ForgedId]
Response(req, code, id) == [req |-> req, code |-> code, id |-> id]

\* Prepare for the frames and forms of the served process, evaluated once
Prepared ==
    [frame \in {load_all_datasets(d) : d \in Directories}, data \in Forms |->
        Prepare(frame, data)]

(* ------------------------------ actions ------------------------------- *)
Init ==
    /\ DATA \in {load_all_datasets(d) : d \in Directories}
    /\ submissions = EmptyIndex
    /\ logFile = EnsureFile(NoFile)
    /\ pc = [t \in Threads |-> "idle"]
    /\ local = [t \in Threads |-> NoLocal]
    /\ resp = NoResp
    /\ epoch = 0
    /\ nextId = 0
    /\ now = 0
    /\ call = [fn |-> "none"]
    /\ ret = [ty |-> "None"]

\* submit_form, lines 116-190: parse, match, compute the row; a request that
\* ends here answers 404 or fails with 500.  datetime.now() reads a clock
\* that is later at every reading.
SubmitPrepare(t, data) ==
    /\ pc[t] = "idle"
    /\ \E o \in Prepared[DATA, data] :
         IF o.code = 302
         THEN /\ nextId < MaxIds
              /\ nextId' = nextId + 1
              /\ local' = [local EXCEPT ![t] =
                     [ty |-> "frame", data |-> data,
                      row |-> [submission_id |-> NewId(epoch, nextId),
                               timestamp |-> now] @@ o.row]]
              /\ now' = now + 1
              /\ pc' = [pc EXCEPT ![t] = "append"]
              /\ UNCHANGED resp
         ELSE /\ resp' = Response("submit_form", o.code, ForgedId)
              /\ UNCHANGED <<nextId, now, local, pc>>
    /\ UNCHANGED <<DATA, submissions, logFile, epoch, call, ret>>

\* submit_form, lines 193-198: append the row to the log
SubmitAppend(t) ==
    /\ pc[t] = "append"
    /\ logFile' = AppendRow(logFile, local[t].row)
    /\ pc' = [pc EXCEPT ![t] = "insert"]
    /\ UNCHANGED <<DATA, submissions, local, resp, epoch, nextId, now, call, ret>>

\* submit_form, lines 201-203: insert into the index, redirect
SubmitInsert(t) ==
    /\ pc[t] = "insert"
    /\ submissions' = IndexInsert(submissions, local[t].row)
    /\ resp' = Response("submit_form", 302, local[t].row.submission_id)
    /\ pc' = [pc EXCEPT ![t] = "idle"]
    /\ local' = [local EXCEPT ![t] = NoLocal]
    /\ UNCHANGED <<DATA, logFile, epoch, nextId, now, call, ret>>

\* the test that opens dashboard, products and routes
Known(index, id) == id \in DOMAIN index

\* a worker is free to serve a request; a view is served in one step, so
\* which worker serves it leaves no trace
FreeWorker == {t \in Threads : pc[t] = "idle"} # {}

\* dashboard(submission_id); the re-read of the log for the day-over-day
\* figures only reads, and its errors are caught
Dashboard(id) ==
    /\ FreeWorker
    /\ IF ~Known(submissions, id)
       THEN resp' = Response("dashboard", 404, id)
       ELSE \E o \in DashboardOf(DATA, submissions[id]) :
              resp' = Response("dashboard", o.code, id)
    /\ UNCHANGED <<DATA, submissions, logFile, pc, local, epoch, nextId, now, call, ret>>

\* ViewCode without the test of the index
ViewCode_unchecked(index, id) == 200

\* lines 286-287 and 312-313: "Invalid submission ID" or the page
ViewCode(index, id) == IF Known(index, id) THEN 200 ELSE 404

\* products(submission_id) and routes(submission_id)
View(name, id) ==
    /\ FreeWorker
    /\ resp' = Response(name, ViewCode(submissions, id), id)
    /\ UNCHANGED <<DATA, submissions, logFile, pc, local, epoch, nextId, now, call, ret>>

Products(id) == View("products", id)
Routes(id) == View("routes", id)

\* the process ends (requests in flight are lost) and a new one starts:
\* lines 14-29, 56 and 102 run again over the same files
Restart ==
    /\ epoch < MaxRestarts
    /\ epoch' = epoch + 1
    /\ logFile' = EnsureFile(logFile)
    /\ submissions' = EmptyIndex
    /\ pc' = [t \in Threads |-> "idle"]
    /\ local' = [t \in Threads |-> NoLocal]
    /\ resp' = NoResp
    /\ UNCHANGED <<DATA, nextId, now, call, ret>>

Next ==
    \/ \E t \in Threads, data \in Forms : SubmitPrepare(t, data)
    \/ \E t \in Threads : SubmitAppend(t)
    \/ \E t \in Threads : SubmitInsert(t)
    \/ \E id \in ClientIds(logFile) : Dashboard(id)
    \/ \E id \in ClientIds(logFile) : Products(id)
    \/ \E id \in ClientIds(logFile) : Routes(id)
    \/ Restart

Spec == Init /\ [][Next]_vars

(* ------------------- the operators applied to inputs ------------------ *)
CityInputs ==
    { None, Str(<<>>), Str(<<" ">>), Str(<<" ", " ">>), Str(<<"a", "b">>),
      Str(<<" ", "A", "b">>), Str(<<"b">>), Str(<<"a">>), Str(<<"z", "z">>) }

FieldValues ==
    { None, Str(<<>>), Str(<<"0">>), Str(<<"8">>), Str(<<"a", "b">>), Num(0),
      Num(Hundredths(30)) }

Thresholds == {15, 35, 55, 150}

MessageInputs ==
    { None, Str(<<>>), Str(<<"a", "b">>), Str(<<"4", "0">>), Num(0), Num(Hundredths(40)),
      Num(Hundredths(1000)) }
    \cup {Num(Hundredths(k) + d) : k \in Thresholds, d \in {-1, 0, 1}}

NotCalled == [ty |-> "None"]

Calls ==
    {[fn |-> "find_best_city_match", dir |-> d, city_input |-> c] :
        d \in AllDirectories, c \in CityInputs}
    \cup {[fn |-> "latest", dir |-> d, city_key |-> k] :
        d \in {e \in AllDirectories : "local_time" \in load_all_datasets(e).cols},
        k \in {<<"a", "b">>, <<"b", "c">>, <<"b", "a", "b">>}}
    \cup {[fn |-> "submit_form", dir |-> d, data |-> f] : d \in AllDirectories, f \in Forms}
    \cup {[fn |-> "dashboard", dir |-> d, data |-> f] : d \in AllDirectories, f \in Forms}
    \cup {[fn |-> "ParseHours", data |-> Form(None, None, i, o, w, None)] :
        i \in FieldValues, o \in FieldValues, w \in FieldValues}
    \cup {[fn |-> "pm25_health_message", v |-> v] : v \in MessageInputs}

InitFn ==
    /\ DATA = EmptyFrame
    /\ submissions = EmptyIndex
    /\ logFile = EnsureFile(NoFile)
    /\ pc = [t \in Threads |-> "idle"]
    /\ local = [t \in Threads |-> NoLocal]
    /\ resp = NoResp
    /\ epoch = 0
    /\ nextId = 0
    /\ now = 0
    /\ call \in Calls
    /\ ret = NotCalled

Returns(value) ==
    /\ ret = NotCalled
    /\ ret' = value
    /\ UNCHANGED <<DATA, submissions, logFile, pc, local, resp, epoch, nextId, now, call>>

ApplyMatch ==
    /\ call.fn = "find_best_city_match"
    /\ \E frame \in {load_all_datasets(call.dir)} :
         Returns([ty |-> "match",
                  out |-> find_best_city_match(frame, call.city_input),
                  stage |-> MatchStage(frame, call.city_input)])

\* lines 140-154 for a matched key: the reading taken as latest, the rows it
\* is taken from and the PM2.5 average
ApplyLatest ==
    /\ call.fn = "latest"
    /\ \E city_df \in {CityRows(load_all_datasets(call.dir), call.city_key)} :
         /\ city_df # <<>>
         /\ \E latest \in LatestOf(city_df) :
              Returns([ty |-> "latest", latest |-> latest, city_df |-> city_df,
                       pm2_5_avg |-> MeanOrNone(load_all_datasets(call.dir), city_df, "PM2_5")])

ApplySubmit ==
    /\ call.fn = "submit_form"
    /\ \E o \in Prepare(load_all_datasets(call.dir), call.data) :
         Returns([ty |-> "submit_form"] @@ o)

\* the dashboard of a submission the same process stored
ApplyDashboard ==
    /\ call.fn = "dashboard"
    /\ \E frame \in {load_all_datasets(call.dir)} :
         \E o \in Prepare(frame, call.data) :
           /\ o.code = 302
           /\ \E page \in DashboardOf(frame, o.row) : Returns([ty |-> "dashboard"] @@ page)

ApplyParse ==
    /\ call.fn = "ParseHours"
    /\ Returns(ParseHours(call.data))

ApplyMessage ==
    /\ call.fn = "pm25_health_message"
    /\ Returns([ty |-> "message", msg |-> pm25_health_message(call.v)])

NextFn ==
    \/ ApplyMatch
    \/ ApplyLatest
    \/ ApplySubmit
    \/ ApplyDashboard
    \/ ApplyParse
    \/ ApplyMessage

SpecFn == InitFn /\ [][NextFn]_vars

(* ------------------------------ properties --------------------------- *)
IsPrefix(a, b) == Len(a) <= Len(b) /\ SubSeq(b, 1, Len(a)) = a

\* what the form's user entered, as the stored row holds it
Entered(row) ==
    [fullName |-> row.fullName, city_input |-> row.city_input, notes |-> row.notes,
     hours |-> [ty |-> "hours", indoor |-> row.indoor, outdoor |-> row.outdoor,
                work |-> row.work]]

Submitted(data) ==
    [fullName |-> data.fullName, city_input |-> data.city,
     notes |-> IF data.notes.ty = "None" THEN Str(<<>>) ELSE data.notes,
     hours |-> ParseHours(data)]

\* C1: a submission that ends in its redirect is in the index under its new
\* ID, holding the submitted fields, the ID and the timestamp; and while the
\* process lives no step changes or removes a record of the index.
C1_Step ==
    /\ \A t \in Threads :
         SubmitInsert(t) =>
           /\ ~Known(submissions, local[t].row.submission_id)
           /\ resp' = Response("submit_form", 302, local[t].row.submission_id)
           /\ Known(submissions', local[t].row.submission_id)
           /\ Entered(submissions'[local[t].row.submission_id]) = Submitted(local[t].data)
           /\ submissions'[local[t].row.submission_id].submission_id
                = local[t].row.submission_id
           /\ submissions'[local[t].row.submission_id].timestamp = local[t].row.timestamp
    /\ epoch' = epoch =>
         \A id \in DOMAIN submissions :
           Known(submissions', id) /\ submissions'[id] = submissions[id]

Unresolved(frame, city) ==
    \/ ~Truthy(find_best_city_match(frame, city))
    \/ CityRows(frame, find_best_city_match(frame, city).s) = <<>>

C2_Step ==
    \A t \in Threads, data \in Forms :
      (SubmitPrepare(t, data) /\ Unresolved(DATA, data.city)) =>
        /\ resp' = Response("submit_form", 404, ForgedId)
        /\ submissions' = submissions
        /\ logFile' = logFile

C2_NotFoundLeavesStore == [][C2_Step]_vars

\* C3: no two submissions are between their log append and their index insert
\* at once.
C3_MutualExclusion ==
    \A t1 \in Threads, t2 \in Threads :
      (pc[t1] = "insert" /\ pc[t2] = "insert") => t1 = t2

\* C4: a restart empties the index and keeps the log; no ID of an earlier
\* process is in the index; and a view of an ID the index does not hold
\* answers 404 and changes neither the index nor the log.
C4_Step ==
    /\ epoch' # epoch => (submissions' = EmptyIndex /\ logFile' = logFile)
    /\ \A id \in RowIds(logFile) : id[1] < epoch => ~Known(submissions, id)
    /\ \A id \in RowIds(logFile') : id[1] < epoch' => ~Known(submissions', id)
    /\ \A id \in ClientIds(logFile) :
         (~Known(submissions, id) /\ (Dashboard(id) \/ Products(id) \/ Routes(id))) =>
           /\ resp'.code = 404
           /\ submissions' = submissions
           /\ logFile' = logFile

C4_RestartForgets == [][C4_Step]_vars

\* after a restart, the dashboard of a submission of the earlier process is
\* refused while its row is in the log
C4_Witness ==
    /\ epoch = 1
    /\ resp.req = "dashboard" /\ resp.code = 404
    /\ resp.id \in RowIds(logFile) /\ resp.id[1] = 0
    /\ submissions # EmptyIndex

\* C5: the log only grows at its end: every step leaves the old lines, header
\* first, as a prefix of the new ones, and the only change is one row added by
\* one submission.
C5_Step ==
    /\ logFile.exists /\ logFile'.exists
    /\ Head(logFile'.lines) = Header
    /\ IsPrefix(logFile.lines, logFile'.lines)
    /\ logFile' # logFile =>
         \E t \in Threads :
           /\ pc[t] = "append" /\ pc'[t] = "insert"
           /\ logFile'.lines = Append(logFile.lines, CsvRow(local[t].row))

C5_AppendOnly == [][C5_Step]_vars

\* rows of two processes in the log, and a dashboard that re-read it
C5_Witness ==
    /\ epoch = 1
    /\ \E i, j \in 2..Len(logFile.lines) :
         logFile.lines[i].submission_id[1] = 0 /\ logFile.lines[j].submission_id[1] = 1
    /\ resp.req = "dashboard" /\ resp.code = 200

\* C6: when the city has a timestamped reading, the reading taken as latest
\* has a timestamp and no reading of the city has a later one; the average is
\* over all the city's readings.
C6_LatestIsMaxTimestamp ==
    (ret.ty = "latest" /\ \E i \in 1..Len(ret.city_df) : HasTime(ret.city_df[i])) =>
      /\ HasTime(ret.latest)
      /\ \A i \in 1..Len(ret.city_df) :
           HasTime(ret.city_df[i]) => ret.city_df[i].local_time.v <= ret.latest.local_time.v
      /\ ret.pm2_5_avg.ty = "mean" => ret.pm2_5_avg.n = CountOf(ret.city_df, "PM2_5")

\* C7: an input that is empty once trimmed and lowercased, or a table without
\* the city-key column, gets no match, and the fuzzy and substring stages are
\* not reached.
NormalizedEmpty(city_input) ==
    city_input.ty = "None" \/ CleanKey(AsText(city_input)) = <<>>

C7_EmptyInputFails ==
    (ret.ty = "match"
       /\ (NormalizedEmpty(call.city_input)
             \/ "city_clean" \notin load_all_datasets(call.dir).cols)) =>
      (ret.out = None /\ ret.stage = "guard")

\* C8: the dashboard of a stored submission is served, and its four trend
\* series have one length, at most 48.
C8_TrendSeriesAligned ==
    ret.ty = "dashboard" =>
      /\ ret.code = 200
      /\ Len(ret.times) <= TrendWindow
      /\ Len(ret.pm25_ts) = Len(ret.times)
      /\ Len(ret.pm10_ts) = Len(ret.times)
      /\ Len(ret.co2_ts) = Len(ret.times)

\* C9: no value of indoor, outdoor or work makes the request fail: an absent
\* or unparsable indoor or outdoor is 0, and work is max(0, 24 - indoor -
\* outdoor) exactly when it is absent, a supplied 0 staying 0.
Parsable(x) == float(x).ty = "float"
HoursOrZero(x) == IF Parsable(x) THEN float(x).v ELSE 0

C9_HoursDegrade ==
    (call.fn = "ParseHours" /\ ret # NotCalled) =>
      /\ ret.ty = "hours"
      /\ ret.indoor = Num(HoursOrZero(call.data.indoor))
      /\ ret.outdoor = Num(HoursOrZero(call.data.outdoor))
      /\ ret.work = IF call.data.work.ty = "None"
                    THEN Num(Max(0, Hundredths(24) - (HoursOrZero(call.data.indoor)
                                                        + HoursOrZero(call.data.outdoor))))
                    ELSE Num(HoursOrZero(call.data.work))

\* C10: pm25_health_message gives excellent up to 15, good up to 35, moderate
\* up to 55, unhealthy up to 150, very unhealthy above, and the unavailable
\* message for an absent or non-numeric value; the suggestion stored with a
\* latest PM2.5 of 40 is the moderate one.
TierOf(n) ==
    IF n <= 1500 THEN "Excellent air (WHO 24h guideline)."
    ELSE IF n <= 3500 THEN "Good - low risk for most people."
    ELSE IF n <= 5500 THEN "Moderate - sensitive groups limit outdoor exertion."
    ELSE IF n <= 15000 THEN "Unhealthy - wear a mask outdoors."
    ELSE "Very unhealthy - avoid outdoor exposure & use purifier."

====
